---- MODULE Spec2Model ----
(***************************************************************************)
(* SeqSleuth batch dispatcher (seqsleuth/main.py): main() reads a manifest, *)
(* and for each file type in turn opens <type>_metadata.csv, submits one   *)
(* process_file call per manifest row of that type to a                    *)
(* ProcessPoolExecutor, and writes each result as it completes.            *)
(*                                                                         *)
(* Python strings are TLA+ strings; a manifest row is a record of its      *)
(* three columns plus the set of columns csv.DictReader filled with None   *)
(* because the line was short.                                             *)
(***************************************************************************)
EXTENDS Integers, Sequences, FiniteSets, TLC

(* ---- bounds ---- *)
MaxRows == 3
MaxWorkers == 2
CpuCount == 2

(* ---- pure helpers ---- *)
UPPER == "ABCDEFGHIJKLMNOPQRSTUVWXYZ"
LOWER == "abcdefghijklmnopqrstuvwxyz"

\* the upper-case letters and their lower-case forms
LowerOf ==
    [c \in {SubSeq(UPPER, i, i) : i \in 1..Len(UPPER)} |->
        LET i == CHOOSE j \in 1..Len(UPPER) : SubSeq(UPPER, j, j) = c
        IN  SubSeq(LOWER, i, i)]

lower_char(c) == IF c \in DOMAIN LowerOf THEN LowerOf[c] ELSE c

RECURSIVE lower(_)
lower(s) ==
    IF Len(s) = 0 THEN s
    ELSE lower_char(SubSeq(s, 1, 1)) \o lower(SubSeq(s, 2, Len(s)))

RECURSIVE replace_first(_, _, _)
replace_first(s, old, new) ==
    IF Len(s) < Len(old) THEN s
    ELSE IF SubSeq(s, 1, Len(old)) = old
         THEN new \o SubSeq(s, Len(old) + 1, Len(s))
         ELSE SubSeq(s, 1, 1) \o replace_first(SubSeq(s, 2, Len(s)), old, new)

\* str.replace(old, new) for a non-empty old: every non-overlapping
\* occurrence, scanning left to right, the result is not rescanned.
RECURSIVE replace(_, _, _)
replace(s, old, new) ==
    IF Len(s) < Len(old) THEN s
    ELSE IF SubSeq(s, 1, Len(old)) = old
         THEN new \o replace(SubSeq(s, Len(old) + 1, Len(s)), old, new)
         ELSE SubSeq(s, 1, 1) \o replace(SubSeq(s, 2, Len(s)), old, new)

BaseUrl == "https://ftp-trace.ncbi.nlm.nih.gov" \o "/ReferenceSamples/giab/"
GiabFtp == "/giab/ftp/"

\* f"{x}" of a DictReader value: the text, or "None" for a missing column
Fmt(info, key) == IF key \in info.none THEN "None" ELSE info[key]

\* the f-string of lines 107-112; the filepath column is known to be present
url(info) ==
    BaseUrl \o replace(info.filepath, GiabFtp, "") \o "/" \o Fmt(info, "filename")

FileTypes == <<"fastq", "bam", "vcf">>
TypeSet == {FileTypes[i] : i \in 1..Len(FileTypes)}
TypeIndex(t) == CHOOSE i \in 1..Len(FileTypes) : FileTypes[i] = t

Row(t, p, f, n) == [filetype |-> t, filepath |-> p, filename |-> f, none |-> n]

\* the manifest lines the model draws from
RowPool ==
    { Row("fastq", "/giab/ftp/sample/dir", "x.fastq", {}),
      Row("bam", "/giab/ftp/a/giab/giab/ftp//ftp/b", "y.bam", {}),
      Row("VCF", "/giab/ftp/giab/ftp/e", "", {"filename"}),
      Row("cram", "/giab/ftp/d", "w.cram", {}),
      Row("bam", "", "", {"filepath", "filename"}),
      Row("", "", "", {"filetype", "filepath", "filename"}) }

Manifests == UNION { [1..n -> RowPool] : n \in 0..MaxRows }

\* one-line manifests over a range of relative paths
PathPool ==
    { "/giab/ftp/sample/dir", "giab/ftp/sample/dir", "/giab/ftp/a/giab/ftp/b",
      "/giab/giab/ftp//ftp/c", "/giab/ftp/giab/ftp/e", "/giab/ftp/",
      "data/giab/ftp", "/GIAB/ftp/x", "" }

PathManifests ==
    { <<Row("fastq", p, "x.fastq", {})>> : p \in PathPool } \cup
    { <<Row("fastq", p, "", {"filename"})>> : p \in PathPool }

\* argparse type= for --workers; [ok |-> FALSE] stands for ArgumentTypeError
WorkersArgs ==
    {[all |-> TRUE, ivalue |-> 0]} \cup
    {[all |-> FALSE, ivalue |-> n] : n \in -1..MaxWorkers}

validate_workers(value) ==
    IF value.all THEN [ok |-> TRUE, workers |-> CpuCount]
    ELSE IF value.ivalue < 1 THEN [ok |-> FALSE, workers |-> 0]
    ELSE [ok |-> TRUE, workers |-> value.ivalue]

(* ---- state ---- *)
VARIABLES
    file_info,     \* the manifest rows, in order (main, lines 67-70)
    workers,       \* args.workers
    pc,            \* where main() is
    file_type,     \* the loop variable of line 85
    error,         \* the exception propagating out of main(), or "none"
    files,         \* per type: the csv file (status, lines written)
    futures,       \* per type: the futures submitted to that batch's executor
    finished,      \* as_completed: futures found finished when it was called
    waiter,        \* as_completed: futures finished since, in finishing order
    installed,     \* as_completed: waiter installed
    received,      \* per type: future indices the loop of line 118 has taken
    pbar,          \* the tqdm bar: total and n
    completed,     \* per type: the futures in the order their calls finished
    outcomes       \* what the extractor calls of this run can do

vars == <<file_info, workers, pc, file_type, error, files, futures,
          finished, waiter, installed, received, pbar, completed, outcomes>>

Header == [kind |-> "header", filename |-> "filename", metadata |-> "metadata"]
NoneResult == [none |-> TRUE]
NoFile == [status |-> "absent", lines |-> <<>>]
NoBar == [total |-> 0, n |-> 0, open |-> FALSE]

\* indices of the rows of one type, in manifest order (lines 86-88)
file_info_of_type_exact(rows, t) ==
    LET F[i \in 0..Len(rows)] ==
            IF i = 0 THEN <<>>
            ELSE IF rows[i].filetype = t THEN Append(F[i-1], i) ELSE F[i-1]
    IN  F[Len(rows)]

file_info_of_type(rows, t) ==
    LET F[i \in 0..Len(rows)] ==
            IF i = 0 THEN <<>>
            ELSE IF lower(rows[i].filetype) = t THEN Append(F[i-1], i) ELSE F[i-1]
    IN  F[Len(rows)]

Batch == file_info_of_type(file_info, file_type)

\* what an extractor call does: it raises, or returns a mapping
Raises == [raised |-> TRUE, metadata |-> <<>>]
Returns(d) == [raised |-> FALSE, metadata |-> d]

\* the outcomes of the format extractor (lines 37-52) and of the filename
\* extractor (lines 54-55) for one file
FormatOutcomes == {Raises, Returns(<< <<"platform", "A">>, <<"sample", "B">> >>)}
FilenameOutcomes == {Raises, Returns(<< <<"sample", "C">>, <<"lab", "D">> >>)}

\* the extractors of a run: the outcomes its calls can have
Extractors(fmts, fns) == [format |-> fmts, filename |-> fns]

\* mappings of at most two keys, in either order
DictKeys == {"sample", "lab"}
DictValues == {"B", "C"}
DictPool ==
    {<<>>} \cup
    {<< <<k, v>> >> : k \in DictKeys, v \in DictValues} \cup
    { d \in { << <<k, v>>, <<l, w>> >> : k \in DictKeys, v \in DictValues,
                                          l \in DictKeys, w \in DictValues }
        : d[1][1] # d[2][1] }

\* one file, every pair of mappings the two extractors can return for it
MergeManifests == {<<Row("fastq", "/giab/ftp/sample/dir", "x.fastq", {})>>}
MergeExtractors ==
    {Extractors({Raises, Returns(d)}, {Raises, Returns(e)}) :
        d \in DictPool, e \in DictPool}

\* batches of one or two tasks over two different files
FileManifests ==
    UNION { [1..n -> { Row("fastq", "/giab/ftp/sample/dir", "x.fastq", {}),
                       Row("fastq", "/giab/ftp/sample/dir", "z.fastq", {}) }]
            : n \in 1..2 }

\* the state when main() has read the manifest (lines 66-84)
InitFrom(manifests, extractors) ==
    /\ file_info \in manifests
    /\ outcomes \in extractors
    /\ \E value \in WorkersArgs :
          /\ validate_workers(value).ok
          /\ workers = validate_workers(value).workers
    /\ pc = "for"
    /\ file_type = FileTypes[1]
    /\ error = "none"
    /\ files = [t \in TypeSet |-> NoFile]
    /\ futures = [t \in TypeSet |-> <<>>]
    /\ finished = {}
    /\ waiter = <<>>
    /\ installed = FALSE
    /\ received = [t \in TypeSet |-> <<>>]
    /\ pbar = NoBar
    /\ completed = [t \in TypeSet |-> <<>>]

Init == InitFrom(Manifests, {Extractors(FormatOutcomes, FilenameOutcomes)})

InitPaths == InitFrom(PathManifests, {Extractors(FormatOutcomes, FilenameOutcomes)})

InitFiles == InitFrom(FileManifests, {Extractors(FormatOutcomes, FilenameOutcomes)})

InitMerge == InitFrom(MergeManifests, MergeExtractors)

(* ---- helpers over the state ---- *)
NextType(t) ==
    IF TypeIndex(t) < Len(FileTypes) THEN FileTypes[TypeIndex(t) + 1] ELSE t

Advance_stop ==
    /\ pc' = "done"
    /\ UNCHANGED file_type

\* the for statement of line 85 takes the next type or falls out of the loop
Advance ==
    IF TypeIndex(file_type) < Len(FileTypes)
    THEN /\ pc' = "for"
         /\ file_type' = NextType(file_type)
    ELSE /\ pc' = "done"
         /\ UNCHANGED file_type

InState(t, st) == {i \in 1..Len(futures[t]) : futures[t][i].state = st}

(* ---- main(), the coordinating process ---- *)

\* lines 85-89: the list comprehension; .lower() of a None filetype raises
Partition ==
    /\ pc = "for"
    /\ IF \E i \in 1..Len(file_info) : "filetype" \in file_info[i].none
       THEN /\ pc' = "aborted"
            /\ error' = "AttributeError:filetype"
            /\ UNCHANGED file_type
       ELSE /\ error' = error
            /\ IF Batch # <<>>
               THEN pc' = "open" /\ UNCHANGED file_type
               ELSE Advance
    /\ UNCHANGED <<file_info, workers, outcomes, completed,
                   files, futures, finished, waiter,
                   installed, received, pbar>>

\* lines 90-94: open(..., "w") creates or truncates the file
Open ==
    /\ pc = "open"
    /\ files' = [files EXCEPT ![file_type] = [status |-> "open", lines |-> <<>>]]
    /\ pc' = "writeheader"
    /\ UNCHANGED <<file_info, workers, outcomes, completed,
                   file_type, error, futures, finished,
                   waiter, installed, received, pbar>>

OpenFails_confined ==
    /\ pc = "open"
    /\ error' = "OSError:open"
    /\ Advance
    /\ UNCHANGED <<file_info, workers, outcomes, completed, files, futures, finished,
                   waiter, installed, received, pbar>>

\* lines 90-94: open() raises OSError; nothing is entered, main() is left
OpenFails ==
    /\ pc = "open"
    /\ pc' = "aborted"
    /\ error' = "OSError:open"
    /\ UNCHANGED <<file_info, workers, outcomes, completed,
                   file_type, files, futures, finished,
                   waiter, installed, received, pbar>>

WriteHeader_skip ==
    /\ pc = "writeheader"
    /\ pbar' = [total |-> Len(Batch), n |-> 0, open |-> TRUE]
    /\ pc' = "submit"
    /\ UNCHANGED <<file_info, workers, outcomes, completed,
                   file_type, error, files, futures,
                   finished, waiter, installed, received>>

\* lines 95-102: the header, the progress bar, the executor
WriteHeader ==
    /\ pc = "writeheader"
    /\ files' = [files EXCEPT ![file_type].lines = Append(@, Header)]
    /\ pbar' = [total |-> Len(Batch), n |-> 0, open |-> TRUE]
    /\ pc' = "submit"
    /\ UNCHANGED <<file_info, workers, outcomes, completed,
                   file_type, error, futures, finished,
                   waiter, installed, received>>

\* lines 103-116: one executor.submit per row; .replace of a None filepath
\* raises inside the executor's with block
Submit ==
    /\ pc = "submit"
    /\ LET j == Len(futures[file_type]) + 1 IN
       IF j > Len(Batch)
       THEN /\ pc' = "as_completed"
            /\ UNCHANGED <<futures, error>>
       ELSE LET info == file_info[Batch[j]] IN
            IF "filepath" \in info.none
            THEN /\ pc' = "shutdown"
                 /\ error' = "AttributeError:filepath"
                 /\ UNCHANGED futures
            ELSE /\ futures' = [futures EXCEPT ![file_type] =
                        Append(@, [info |-> Batch[j], filename |-> url(info),
                                   state |-> "PENDING", result |-> NoneResult])]
                 /\ UNCHANGED <<pc, error>>
    /\ UNCHANGED <<file_info, workers, outcomes, completed,
                   file_type, files, finished, waiter,
                   installed, received, pbar>>

\* line 118: as_completed(futures) collects the already finished futures
\* and installs its waiter on the others
AsCompleted ==
    /\ pc = "as_completed"
    /\ finished' = InState(file_type, "FINISHED")
    /\ waiter' = <<>>
    /\ installed' = TRUE
    /\ pc' = "collect"
    /\ UNCHANGED <<file_info, workers, outcomes, completed,
                   file_type, error, files, futures,
                   received, pbar>>

\* lines 118-120 for the future i that as_completed yields
Take(i) ==
    LET r == futures[file_type][i].result IN
    /\ received' = [received EXCEPT ![file_type] = Append(@, i)]
    /\ IF r = NoneResult
       THEN \* DictWriter.writerow(None) raises AttributeError
            /\ pc' = "shutdown"
            /\ error' = "AttributeError:writerow"
            /\ UNCHANGED <<files, pbar>>
       ELSE \/ /\ files' = [files EXCEPT ![file_type].lines = Append(@, r)]
               /\ pbar' = [pbar EXCEPT !.n = @ + 1]
               /\ UNCHANGED <<pc, error>>
            \/ \* the write raises OSError
               /\ pc' = "shutdown"
               /\ error' = "OSError:writerow"
               /\ UNCHANGED <<files, pbar>>

Receive_lifo ==
    /\ pc = "collect"
    /\ \/ /\ finished # {}
          /\ \E i \in finished :
                /\ finished' = finished \ {i}
                /\ Take(i)
          /\ UNCHANGED waiter
       \/ /\ finished = {}
          /\ waiter # <<>>
          /\ waiter' = SubSeq(waiter, 1, Len(waiter) - 1)
          /\ Take(waiter[Len(waiter)])
          /\ UNCHANGED finished
    /\ UNCHANGED <<file_info, workers, outcomes, completed,
                   file_type, futures, installed>>

\* the futures found finished at the call come first, in the order of a set;
\* the others follow in the order they finished
Receive ==
    /\ pc = "collect"
    /\ \/ /\ finished # {}
          /\ \E i \in finished :
                /\ finished' = finished \ {i}
                /\ Take(i)
          /\ UNCHANGED waiter
       \/ /\ finished = {}
          /\ waiter # <<>>
          /\ waiter' = Tail(waiter)
          /\ Take(Head(waiter))
          /\ UNCHANGED finished
    /\ UNCHANGED <<file_info, workers, outcomes, completed,
                   file_type, futures, installed>>

\* line 118: as_completed is exhausted, the for loop ends
Collected ==
    /\ pc = "collect"
    /\ Len(received[file_type]) = Len(futures[file_type])
    /\ pc' = "shutdown"
    /\ UNCHANGED <<file_info, workers, outcomes, completed,
                   file_type, error, files, futures,
                   finished, waiter, installed, received, pbar>>

Shutdown_nowait ==
    /\ pc = "shutdown"
    /\ pc' = "close"
    /\ finished' = {}
    /\ waiter' = <<>>
    /\ installed' = FALSE
    /\ UNCHANGED <<file_info, workers, outcomes, completed,
                   file_type, error, files, futures,
                   received, pbar>>

\* line 100-102: leaving the executor's with block is shutdown(wait=True),
\* on the normal path and on an exception alike
Shutdown ==
    /\ pc = "shutdown"
    /\ InState(file_type, "FINISHED") = 1..Len(futures[file_type])
    /\ pc' = "close"
    /\ finished' = {}
    /\ waiter' = <<>>
    /\ installed' = FALSE
    /\ UNCHANGED <<file_info, workers, outcomes, completed,
                   file_type, error, files, futures,
                   received, pbar>>

Close_leak ==
    /\ pc = "close"
    /\ IF error = "none"
       THEN /\ pbar' = [pbar EXCEPT !.open = FALSE]
            /\ Advance
       ELSE /\ pc' = "aborted"
            /\ UNCHANGED <<pbar, file_type>>
    /\ UNCHANGED <<file_info, workers, outcomes, completed,
                   error, files, futures, finished, waiter,
                   installed, received>>

\* lines 90-94 and 121: leaving the file's with block closes it; then
\* pbar.close() and the next type, or the exception leaves main()
Close ==
    /\ pc = "close"
    /\ files' = [files EXCEPT ![file_type].status = "closed"]
    /\ IF error = "none"
       THEN /\ pbar' = [pbar EXCEPT !.open = FALSE]
            /\ Advance
       ELSE /\ pc' = "aborted"
            /\ UNCHANGED <<pbar, file_type>>
    /\ UNCHANGED <<file_info, workers, outcomes, completed,
                   error, futures, finished, waiter,
                   installed, received>>

(* ---- the worker processes of a batch's executor ---- *)

StartTask_unbounded(t) ==
    /\ InState(t, "PENDING") # {}
    /\ LET i == CHOOSE j \in InState(t, "PENDING") :
                    \A k \in InState(t, "PENDING") : j <= k
       IN  futures' = [futures EXCEPT ![t][i].state = "RUNNING"]
    /\ UNCHANGED <<file_info, workers, outcomes, completed,
                   pc, file_type, error, files, finished,
                   waiter, installed, received, pbar>>

StartTask_lifo(t) ==
    /\ InState(t, "PENDING") # {}
    /\ Cardinality(InState(t, "RUNNING")) < workers
    /\ LET i == CHOOSE j \in InState(t, "PENDING") :
                    \A k \in InState(t, "PENDING") : j >= k
       IN  futures' = [futures EXCEPT ![t][i].state = "RUNNING"]
    /\ UNCHANGED <<file_info, workers, outcomes, completed,
                   pc, file_type, error, files, finished,
                   waiter, installed, received, pbar>>

\* a free worker process takes the oldest pending call off the queue
StartTask(t) ==
    /\ InState(t, "PENDING") # {}
    /\ Cardinality(InState(t, "RUNNING")) < workers
    /\ LET i == CHOOSE j \in InState(t, "PENDING") :
                    \A k \in InState(t, "PENDING") : j <= k
       IN  futures' = [futures EXCEPT ![t][i].state = "RUNNING"]
    /\ UNCHANGED <<file_info, workers, outcomes, completed,
                   pc, file_type, error, files, finished,
                   waiter, installed, received, pbar>>

\* dict.update: a key already present keeps its place and takes the new
\* value, a new key is appended (a dict is a sequence of <<key, value>>)
Keys(d) == {d[i][1] : i \in 1..Len(d)}

RECURSIVE update_keep(_, _)
update_keep(d, e) ==
    IF e = <<>> THEN d
    ELSE LET k == e[1][1]
             v == e[1][2]
             d1 == IF k \in Keys(d) THEN d ELSE Append(d, <<k, v>>)
         IN  update_keep(d1, Tail(e))

RECURSIVE update(_, _)
update(d, e) ==
    IF e = <<>> THEN d
    ELSE LET k == e[1][1]
             v == e[1][2]
             d1 == IF k \in Keys(d)
                   THEN [i \in 1..Len(d) |-> IF d[i][1] = k THEN <<k, v>> ELSE d[i]]
                   ELSE Append(d, <<k, v>>)
         IN  update(d1, Tail(e))

\* json.dumps of a dict of strings to strings
RECURSIVE json_items(_)
json_items(d) ==
    IF d = <<>> THEN ""
    ELSE "\"" \o d[1][1] \o "\": \"" \o d[1][2] \o "\""
         \o (IF Len(d) > 1 THEN ", " ELSE "") \o json_items(Tail(d))

json_dumps(d) == "{" \o json_items(d) \o "}"

\* lines 34-63: any exception of the try block is logged and the function
\* falls off its end, returning None
process_file(t, filename, fmt, fn) ==
    IF fmt.raised \/ fn.raised THEN NoneResult
    ELSE [kind |-> "row", filename |-> filename,
          metadata |-> json_dumps(update(fmt.metadata, fn.metadata))]

FinishTask_twice(t, i) ==
    /\ i \in InState(t, "RUNNING")
    /\ \E fmt \in outcomes.format, fn \in outcomes.filename :
          futures' = [futures EXCEPT ![t][i] =
              [@ EXCEPT !.state = "FINISHED",
                        !.result = process_file(t, futures[t][i].filename, fmt, fn)]]
    /\ completed' = [completed EXCEPT ![t] = Append(@, i)]
    /\ IF installed /\ t = file_type
       THEN waiter' = Append(Append(waiter, i), i)
       ELSE UNCHANGED waiter
    /\ UNCHANGED <<file_info, workers, outcomes, pc, file_type, error, files,
                   finished, installed, received, pbar>>

FinishTask_writes(t, i) ==
    /\ i \in InState(t, "RUNNING")
    /\ \E fmt \in outcomes.format, fn \in outcomes.filename :
          LET r == process_file(t, futures[t][i].filename, fmt, fn) IN
          /\ futures' = [futures EXCEPT ![t][i] =
                 [@ EXCEPT !.state = "FINISHED", !.result = r]]
          /\ files' = IF r = NoneResult \/ files[t].status # "open" THEN files
                      ELSE [files EXCEPT ![t].lines = Append(@, r)]
    /\ completed' = [completed EXCEPT ![t] = Append(@, i)]
    /\ IF installed /\ t = file_type
       THEN waiter' = Append(waiter, i)
       ELSE UNCHANGED waiter
    /\ UNCHANGED <<file_info, workers, outcomes, pc, file_type, error,
                   finished, installed, received, pbar>>

\* the call returns and the future is set; a waiting as_completed is told
FinishTask(t, i) ==
    /\ i \in InState(t, "RUNNING")
    /\ \E fmt \in outcomes.format, fn \in outcomes.filename :
          futures' = [futures EXCEPT ![t][i] =
              [@ EXCEPT !.state = "FINISHED",
                        !.result = process_file(t, futures[t][i].filename, fmt, fn)]]
    /\ completed' = [completed EXCEPT ![t] = Append(@, i)]
    /\ IF installed /\ t = file_type
       THEN waiter' = Append(waiter, i)
       ELSE UNCHANGED waiter
    /\ UNCHANGED <<file_info, workers, outcomes, pc, file_type, error, files,
                   finished, installed, received, pbar>>

Next ==
    \/ Partition
    \/ Open
    \/ OpenFails
    \/ WriteHeader
    \/ Submit
    \/ AsCompleted
    \/ Receive
    \/ Collected
    \/ Shutdown
    \/ Close
    \/ \E t \in TypeSet : StartTask(t)
    \/ \E t \in TypeSet : \E i \in 1..Len(futures[t]) : FinishTask(t, i)

Spec == Init /\ [][Next]_vars

\* the same program run on the one-line manifests
SpecPaths == InitPaths /\ [][Next]_vars

\* the same program run on batches over two different files
SpecFiles == InitFiles /\ [][Next]_vars

\* the same program run on one file, over the mappings the extractors return
SpecMerge == InitMerge /\ [][Next]_vars

(* ---- vocabulary of the properties ---- *)

SeqToSet(q) == {q[i] : i \in 1..Len(q)}
BatchOf(t) == file_info_of_type(file_info, t)
Failed(t) == {i \in 1..Len(futures[t]) :
                 futures[t][i].state = "FINISHED" /\ futures[t][i].result = NoneResult}
AllFinished(t) == InState(t, "FINISHED") = 1..Len(futures[t])
Submitted(t) == Len(futures[t]) = Len(BatchOf(t))
RowLines(t) == {i \in 1..Len(files[t].lines) : files[t].lines[i].kind = "row"}
HeaderLines(t) == {i \in 1..Len(files[t].lines) : files[t].lines[i] = Header}
Ended == pc \in {"done", "aborted"}
\* the run met a malformed manifest row or a failing output stream
ManifestOrSinkError ==
    error \in {"AttributeError:filetype", "AttributeError:filepath",
               "OSError:open", "OSError:writerow"}
Earlier(t, u) == TypeIndex(t) < TypeIndex(u)

(* C1: in a batch of K tasks of which exactly one extractor call failed and *)
(* K-1 succeeded, the batch runs to completion (no exception leaves it),    *)
(* all K tasks have been processed and the table holds exactly K-1 rows.    *)
C1_FailureIsolation ==
    \A t \in TypeSet :
        ( /\ files[t].status = "closed"
          /\ ~ManifestOrSinkError
          /\ Submitted(t)
          /\ Cardinality(Failed(t)) = 1 )
        => /\ error = "none"
           /\ AllFinished(t)
           /\ Cardinality(RowLines(t)) = Len(BatchOf(t)) - 1

(* C2: an extractor failure never terminates the run: a run in which some   *)
(* task failed (and no manifest or sink error occurred) ends normally, and  *)
(* every format with manifest rows has had its batch processed and its      *)
(* table produced.                                                          *)
C2_ExtractorFailureAbsorbed ==
    ( /\ Ended
      /\ ~ManifestOrSinkError
      /\ \E t \in TypeSet : Failed(t) # {} )
    => /\ pc = "done"
       /\ \A t \in TypeSet :
             BatchOf(t) # <<>> =>
                /\ files[t].status = "closed"
                /\ Submitted(t)
                /\ AllFinished(t)

(* C3: when a batch is complete (its stream is closed; no manifest or sink  *)
(* error), process_file has run for exactly |B| tasks and the loop over     *)
(* as_completed has received exactly |B| results, one per task.             *)
C3_ExactlyOneResultPerTask ==
    \A t \in TypeSet :
        (files[t].status = "closed" /\ ~ManifestOrSinkError)
        => /\ Cardinality(InState(t, "FINISHED")) = Len(BatchOf(t))
           /\ Len(received[t]) = Len(BatchOf(t))
           /\ SeqToSet(received[t]) = 1..Len(BatchOf(t))

(* C4: at every moment the number of tasks whose process_file call is       *)
(* running is at most args.workers, which is at least 1.                    *)
C4_BoundedConcurrency ==
    /\ workers >= 1
    /\ \A t \in TypeSet : Cardinality(InState(t, "RUNNING")) <= workers
    /\ Cardinality({<<t, i>> \in TypeSet \X (1..MaxRows + 1) :
                        i \in InState(t, "RUNNING")}) <= workers

\* the pool is saturated while calls are still queued (batch larger than N)
C4_Witness ==
    \E t \in TypeSet :
        /\ Cardinality(InState(t, "RUNNING")) = workers
        /\ InState(t, "PENDING") # {}

(* C5: in every stream the header is the first line and is written exactly  *)
(* once, every other line is a result row, and a step of the run writes to  *)
(* the stream of the current batch only.                                    *)
C5_HeaderState ==
    \A t \in TypeSet :
        /\ files[t].lines # <<>> => files[t].lines[1] = Header
        /\ Cardinality(HeaderLines(t)) <= 1
        /\ \A i \in 2..Len(files[t].lines) : files[t].lines[i].kind = "row"
        /\ (futures[t] # <<>> \/ files[t].status = "closed")
              => Cardinality(HeaderLines(t)) = 1

C5_OneStream ==
    \A t \in TypeSet : files'[t] # files[t] => t = file_type

C5_HeaderOnceFirst == [](C5_HeaderState) /\ [][C5_OneStream]_vars

C5_Witness ==
    \E t \in TypeSet : files[t].status = "closed" /\ Cardinality(RowLines(t)) >= 2

(* C6: a task is submitted only to a batch whose stream is open with its    *)
(* header written, and a stream is closed only when every task submitted    *)
(* to its batch is finished, also when an exception leaves the batch.       *)
C6_OpenBeforeSubmitCloseAfterDrain ==
    \A t \in TypeSet :
        /\ futures[t] # <<>> =>
              /\ files[t].status \in {"open", "closed"}
              /\ files[t].lines # <<>>
              /\ files[t].lines[1] = Header
        /\ files[t].status = "closed" => AllFinished(t)
        /\ (files[t].status = "open" /\ pc = "close") => AllFinished(t)

\* the coordinator left the batch on an exception with results outstanding
C6_Witness ==
    \E t \in TypeSet :
        /\ files[t].status = "closed"
        /\ error # "none"
        /\ Len(futures[t]) >= 2
        /\ Len(received[t]) < Len(futures[t])

(* C7: formats are handled in the order fastq, bam, vcf: when the batch of  *)
(* a format has begun, every task of every earlier format is finished and   *)
(* the earlier stream is closed; tasks of two formats never run together.   *)
C7_OneFormatAtATime ==
    \A t \in TypeSet, u \in TypeSet :
        Earlier(t, u) =>
           /\ (files[u].status # "absent" \/ futures[u] # <<>>) =>
                 /\ AllFinished(t)
                 /\ Submitted(t)
                 /\ files[t].status = (IF BatchOf(t) = <<>> THEN "absent" ELSE "closed")
           /\ ~(InState(t, "RUNNING") # {} /\ InState(u, "RUNNING") # {})
           /\ InState(t, "FINISHED") # 1..Len(futures[t]) => InState(u, "RUNNING") = {}

C7_Witness ==
    \E t \in TypeSet, u \in TypeSet :
        /\ Earlier(t, u)
        /\ futures[t] # <<>>
        /\ files[t].status = "closed"
        /\ InState(u, "RUNNING") # {}

\* the recognized tags are compared ignoring case
Recognized(r) == lower(file_info[r].filetype) \in TypeSet
Holders(r) == {<<t, i>> \in TypeSet \X (1..Len(file_info)) :
                  i <= Len(futures[t]) /\ futures[t][i].info = r}

(* C8: every manifest row with a recognized tag becomes exactly one task,   *)
(* in the batch of its tag; batches keep manifest order; rows with another  *)
(* tag become no task and raise no error.                                   *)
C8_PartitionExact ==
    /\ \A r \in 1..Len(file_info) :
          /\ Cardinality(Holders(r)) <= 1
          /\ \A h \in Holders(r) : lower(file_info[r].filetype) = h[1]
          /\ pc = "done" =>
                Cardinality(Holders(r)) = (IF Recognized(r) THEN 1 ELSE 0)
    /\ \A t \in TypeSet : \A i \in 1..Len(futures[t]) :
          /\ futures[t][i].info \in 1..Len(file_info)
          /\ \A j \in 1..Len(futures[t]) :
                i < j => futures[t][i].info < futures[t][j].info
    /\ (\A r \in 1..Len(file_info) : file_info[r].none = {})
          => error \notin {"AttributeError:filetype", "AttributeError:filepath"}

\* a completed run over a manifest with an unrecognized tag, an upper-case
\* tag and two rows of one format
C8_Witness ==
    /\ pc = "done"
    /\ \E r \in 1..Len(file_info) : ~Recognized(r)
    /\ \E r \in 1..Len(file_info) :
          Recognized(r) /\ file_info[r].filetype \notin TypeSet
    /\ \E t \in TypeSet : Len(futures[t]) >= 2

\* the row a future was made from
InfoOf(t, i) == file_info[futures[t][i].info]

RECURSIVE remove_once(_, _)
remove_once(s, old) ==
    IF Len(s) < Len(old) THEN s
    ELSE IF SubSeq(s, 1, Len(old)) = old
         THEN SubSeq(s, Len(old) + 1, Len(s))
         ELSE SubSeq(s, 1, 1) \o remove_once(SubSeq(s, 2, Len(s)), old)

(* C9 as stated: the locator is the base, the relative path with the first  *)
(* occurrence of "/giab/ftp/" removed, "/" and the filename; the path       *)
(* "giab/ftp/sample/dir" with "x.fastq" gives base + "sample/dir/x.fastq".  *)
C9_LocatorRemovedOnce ==
    \A t \in TypeSet : \A i \in 1..Len(futures[t]) :
        LET info == InfoOf(t, i)
            name == IF "filename" \in info.none THEN "None" ELSE info.filename
        IN
        /\ futures[t][i].filename =
              BaseUrl \o remove_once(info.filepath, GiabFtp) \o "/" \o name
        /\ (info.filepath = "giab/ftp/sample/dir" /\ name = "x.fastq")
              => futures[t][i].filename = BaseUrl \o "sample/dir/" \o "x.fastq"

\* the occurrences of old in s that a left-to-right scan takes: an
\* occurrence counts when it does not overlap one taken before it
MatchAt(s, old, i) ==
    i + Len(old) - 1 <= Len(s) /\ SubSeq(s, i, i + Len(old) - 1) = old

Taken(s, old) ==
    LET C[i \in 0..Len(s)] ==
            IF i = 0 THEN {}
            ELSE IF MatchAt(s, old, i) /\ \A j \in C[i-1] : j + Len(old) <= i
                 THEN C[i-1] \cup {i}
                 ELSE C[i-1]
    IN  C[Len(s)]

\* s without the characters of the taken occurrences
Kept(s, old) ==
    LET K[i \in 0..Len(s)] ==
            IF i = 0 THEN ""
            ELSE IF \E j \in Taken(s, old) : j <= i /\ i < j + Len(old)
                 THEN K[i-1]
                 ELSE K[i-1] \o SubSeq(s, i, i)
    IN  K[Len(s)]

(* C9, amended: the locator is the base, the relative path with every      *)
(* non-overlapping occurrence of "/giab/ftp/" (taken left to right, the     *)
(* result not rescanned) removed, "/" and the filename ("None" when the     *)
(* filename column is missing); "/giab/ftp/sample/dir" with "x.fastq"       *)
(* gives base + "sample/dir/x.fastq", and "giab/ftp/sample/dir", which      *)
(* does not contain the substring, is kept whole.                           *)
C9_LocatorRemovedEverywhere ==
    \A t \in TypeSet : \A i \in 1..Len(futures[t]) :
        LET info == InfoOf(t, i)
            name == IF "filename" \in info.none THEN "None" ELSE info.filename
        IN
        /\ "filepath" \notin info.none
        /\ futures[t][i].filename =
              BaseUrl \o Kept(info.filepath, GiabFtp) \o "/" \o name
        /\ (info.filepath = "/giab/ftp/sample/dir" /\ name = "x.fastq")
              => futures[t][i].filename = BaseUrl \o "sample/dir/" \o "x.fastq"
        /\ (info.filepath = "giab/ftp/sample/dir" /\ name = "x.fastq")
              => futures[t][i].filename =
                    BaseUrl \o "giab/ftp/sample/dir/" \o "x.fastq"
        /\ Taken(info.filepath, GiabFtp) = {} =>
              futures[t][i].filename = BaseUrl \o info.filepath \o "/" \o name

\* a locator was built from a path with two occurrences of the substring
C9_Witness ==
    \E t \in TypeSet : \E i \in 1..Len(futures[t]) :
        /\ Cardinality(Taken(InfoOf(t, i).filepath, GiabFtp)) = 2
        /\ futures[t][i].filename = BaseUrl \o "ab/x.fastq"

TagCount(t) ==
    Cardinality({r \in 1..Len(file_info) : lower(file_info[r].filetype) = t})

(* C10: a run in which no extraction fails (and no manifest or sink error   *)
(* occurs) ends normally with a table for exactly the formats that have     *)
(* manifest rows, each table holding one result row per manifest row of     *)
(* its tag.                                                                 *)
C10_TablePerFormat ==
    ( /\ Ended
      /\ ~ManifestOrSinkError
      /\ \A t \in TypeSet : Failed(t) = {} )
    => /\ pc = "done"
       /\ \A t \in TypeSet :
             /\ files[t].status # "absent" <=> TagCount(t) >= 1
             /\ TagCount(t) >= 1 =>
                   /\ files[t].status = "closed"
                   /\ Cardinality(RowLines(t)) = TagCount(t)
                   /\ Cardinality(HeaderLines(t)) = 1

\* 2 fastq rows, 1 bam row, no vcf row, 2 workers
C10_Witness ==
    /\ pc = "done"
    /\ workers = 2
    /\ TagCount("fastq") = 2 /\ TagCount("bam") = 1 /\ TagCount("vcf") = 0
    /\ Cardinality(RowLines("fastq")) = 2
    /\ Cardinality(RowLines("bam")) = 1
    /\ files["vcf"].status = "absent"

(* C11 as stated: with one worker, the k-th result received (and written)   *)
(* in a batch is that of the k-th task submitted.                           *)
C11_ReceivedInSubmissionOrder ==
    workers = 1 =>
        \A t \in TypeSet : \A k \in 1..Len(received[t]) : received[t][k] = k

\* with one worker the calls finish in the order they were submitted
C11_FinishInOrder ==
    workers = 1 =>
        \A t \in TypeSet : \A i \in 1..Len(futures[t]), j \in 1..Len(futures[t]) :
            (i < j /\ futures[t][j].state # "PENDING")
                => futures[t][i].state = "FINISHED"

\* a result taken once the futures found finished by as_completed are used
\* up is the k-th task's at the k-th position; before that, it is one of
\* the futures found finished
C11_ReceiveStep ==
    (workers = 1 /\ received' # received) =>
        LET t == file_type
            k == Len(received'[t])
        IN  IF finished = {}
            THEN received'[t][k] = k
            ELSE received'[t][k] \in finished

(* C11, amended: with one worker the tasks of a batch finish in submission  *)
(* order, and the results of the tasks that finish after as_completed was   *)
(* called are received and written in submission order, after the results   *)
(* of the tasks already finished at that call, which come in no fixed       *)
(* order.                                                                   *)
C11_OrderAfterCall == [](C11_FinishInOrder) /\ [][C11_ReceiveStep]_vars

\* one worker, three tasks: two had finished at the call and were taken in
\* the other order, the third followed
C11_Witness ==
    /\ workers = 1
    /\ \E t \in TypeSet : received[t] = <<2, 1, 3>> /\ Cardinality(RowLines(t)) = 3

SinkError == error \in {"OSError:open", "OSError:writerow"}
\* every row has its format tag and its relative path
TagsAndPaths ==
    \A r \in 1..Len(file_info) : file_info[r].none \subseteq {"filename"}
Processed(t) ==
    /\ files[t].status = "closed"
    /\ Submitted(t)
    /\ AllFinished(t)
    /\ Cardinality(RowLines(t)) = Len(BatchOf(t))

(* C12: when a manifest row lacks a required field (format tag, relative    *)
(* path or filename) no output stream is ever opened, no header written     *)
(* and no task submitted, and the run does not end normally.                *)
C12_ManifestAllOrNothing ==
    (\E r \in 1..Len(file_info) : file_info[r].none # {})
    => /\ \A t \in TypeSet : files[t] = NoFile /\ futures[t] = <<>>
       /\ pc # "done"

(* C13 as stated: when the stream of one format cannot be opened or         *)
(* written, every other format that has manifest rows still has its batch   *)
(* processed and its table produced by the end of the run.                  *)
C13_SinkFailureConfined ==
    (Ended /\ SinkError /\ TagsAndPaths)
    => \A t \in TypeSet \ {file_type} : BatchOf(t) # <<>> => Processed(t)

(* C13, amended: a sink failure ends the run: the failing format's batch is *)
(* abandoned and the exception leaves main(); the formats before it in the  *)
(* order fastq, bam, vcf have had their batches processed and their tables  *)
(* produced, the formats after it are not processed at all.                 *)
C13_SinkFailureEndsRun ==
    SinkError
    => /\ pc \in {"shutdown", "close", "aborted"}
       /\ \A t \in TypeSet :
             /\ Earlier(t, file_type) =>
                   IF BatchOf(t) # <<>> THEN Processed(t) ELSE files[t] = NoFile
             /\ Earlier(file_type, t) => files[t] = NoFile /\ futures[t] = <<>>
       /\ error = "OSError:open" => files[file_type] = NoFile
       /\ pc = "aborted" => files[file_type].status # "open"

\* the bam stream failed: the fastq table is there, the vcf rows are left
C13_Witness ==
    /\ pc = "aborted"
    /\ SinkError
    /\ file_type = "bam"
    /\ Processed("fastq")
    /\ BatchOf("vcf") # <<>>
    /\ files["vcf"] = NoFile

(* C14: while a batch's progress bar is open (no manifest or sink error),   *)
(* its counter equals the number of results received from as_completed,    *)
(* failed ones included, and does not exceed the batch size.                *)
C14_ProgressCountsEveryResult ==
    (pbar.open /\ ~ManifestOrSinkError)
    => /\ pbar.n = Len(received[file_type])
       /\ pbar.n <= pbar.total
       /\ pbar.total = Len(BatchOf(file_type))

Pos(q, x) == CHOOSE k \in 1..Len(q) : q[k] = x
IsRow(t, i) == futures[t][i].result # NoneResult

(* C15 as stated: of two tasks of a batch that both produced a row, the one *)
(* whose call finished first has its row written first.                     *)
C15_RowsInCompletionOrder ==
    \A t \in TypeSet :
        \A a \in SeqToSet(received[t]), b \in SeqToSet(received[t]) :
            ( /\ IsRow(t, a) /\ IsRow(t, b)
              /\ Pos(completed[t], a) < Pos(completed[t], b) )
            => Pos(received[t], a) < Pos(received[t], b)

\* the rows of a table are the results received, in the order received;
\* the waiter keeps finishing order, and every future found finished at the
\* call finished before every future the waiter holds
C15_ChannelState ==
    /\ \A t \in TypeSet : \A k \in 1..Cardinality(RowLines(t)) :
          /\ k <= Len(received[t])
          /\ files[t].lines[k + 1] = futures[t][received[t][k]].result
    /\ \A k \in 1..Len(waiter), m \in 1..Len(waiter) :
          k < m => Pos(completed[file_type], waiter[k])
                     < Pos(completed[file_type], waiter[m])
    /\ \A i \in finished : \A k \in 1..Len(waiter) :
          Pos(completed[file_type], i) < Pos(completed[file_type], waiter[k])

\* once the futures found finished at the call are used up, the result
\* taken is that of the earliest finished call not yet taken
C15_ReceiveStep ==
    received' # received =>
        LET t == file_type
            new == received'[t][Len(received'[t])]
        IN  IF finished # {}
            THEN new \in finished
            ELSE \A x \in SeqToSet(completed[t]) \ SeqToSet(received[t]) :
                    Pos(completed[t], new) <= Pos(completed[t], x)

(* C15, amended: within a batch, for every N, the rows of the tasks that    *)
(* finish after as_completed was called are written in completion order,    *)
(* after the rows of the tasks already finished at that call; the rows of   *)
(* those earlier tasks are written in no fixed order.                       *)
C15_CompletionOrderAfterCall == [](C15_ChannelState) /\ [][C15_ReceiveStep]_vars

\* the second task finished before the first and its row comes first
C15_Witness ==
    /\ workers >= 2
    /\ \E t \in TypeSet :
          /\ completed[t] = <<2, 1>>
          /\ received[t] = <<2, 1>>
          /\ Cardinality(RowLines(t)) = 2


\* the calls of the batch behaved as a pure extractor does: one file, one result
PureRun(t) ==
    \A i \in 1..Len(futures[t]), j \in 1..Len(futures[t]) :
        ( /\ futures[t][i].state = "FINISHED" /\ futures[t][j].state = "FINISHED"
          /\ futures[t][i].filename = futures[t][j].filename )
        => futures[t][i].result = futures[t][j].result
\* how many rows of the table, and how many results of the batch, name one file
RowsFor(t, f) ==
    Cardinality({k \in RowLines(t) : files[t].lines[k].filename = f})
ResultsFor(t, f) ==
    Cardinality({i \in 1..Len(futures[t]) :
                    IsRow(t, i) /\ futures[t][i].result.filename = f})

(* C16: with pure extractors the multiset of rows in a finished table is    *)
(* fixed by the batch alone, whatever the interleaving and the worker       *)
(* limit: it holds each file's row once per task whose extraction succeeds. *)
C16_SameRowsEveryRun ==
    \A t \in TypeSet :
        ( /\ files[t].status = "closed"
          /\ ~ManifestOrSinkError
          /\ PureRun(t) )
        => \A i \in 1..Len(futures[t]) :
              RowsFor(t, futures[t][i].filename)
                  = ResultsFor(t, futures[t][i].filename)

Occurrences(q, x) == Cardinality({k \in 1..Len(q) : q[k] = x})
\* the legal moves of one task
TaskMoves == {<<"PENDING", "RUNNING">>, <<"RUNNING", "FINISHED">>}

(* C17: a task moves only Queued -> Running -> Completed or Failed: it is   *)
(* started once, it finishes once and is never run again, its result never  *)
(* changes afterwards, and its finished state reaches the completion        *)
(* channel of its batch exactly once (waiting there, or taken from it).     *)
C17_FinishedOnce ==
    \A t \in TypeSet :
        /\ \A i \in 1..Len(futures[t]) :
              Occurrences(completed[t], i)
                  = (IF futures[t][i].state = "FINISHED" THEN 1 ELSE 0)
        /\ \A i \in 1..Len(futures[t]) : Occurrences(received[t], i) <= 1
        /\ SeqToSet(received[t]) \subseteq InState(t, "FINISHED")
        /\ (installed /\ t = file_type) =>
              \A i \in InState(t, "FINISHED") :
                  (IF i \in finished THEN 1 ELSE 0)
                    + Occurrences(waiter, i) + Occurrences(received[t], i) = 1
C17_TaskStep ==
    \A t \in TypeSet :
        /\ Len(futures'[t]) >= Len(futures[t])
        /\ \A i \in 1..Len(futures[t]) :
              \/ futures'[t][i] = futures[t][i]
              \/ /\ <<futures[t][i].state, futures'[t][i].state>> \in TaskMoves
                 /\ futures'[t][i].info = futures[t][i].info
                 /\ futures'[t][i].filename = futures[t][i].filename
                 /\ futures[t][i].result = NoneResult
                 /\ futures'[t][i].state = "RUNNING"
                        => futures'[t][i].result = NoneResult
C17_TaskStateMachine == [](C17_FinishedOnce) /\ [][C17_TaskStep]_vars
\* one task failed, another completed and was taken from the channel, while
\* a third result waits in the channel
C17_Witness ==
    \E t \in TypeSet :
        /\ Failed(t) # {}
        /\ \E i \in SeqToSet(received[t]) : IsRow(t, i)
        /\ installed /\ t = file_type /\ waiter # <<>>

\* a step of a worker process: a call starts or finishes
WorkerStep == futures' # futures /\ Len(futures'[file_type]) = Len(futures[file_type])

(* C18: every change of a format's stream is made by the coordinating       *)
(* process at its open, header, receive or close step for the current       *)
(* format; no step of a worker process changes a stream; a step changes one *)
(* stream only, by truncating it at open or appending exactly one line.     *)
C18_WriteStep ==
    \A t \in TypeSet :
        files'[t] # files[t] =>
            /\ t = file_type
            /\ pc \in {"open", "writeheader", "collect", "close"}
            /\ ~WorkerStep
            /\ completed' = completed
            /\ \A u \in TypeSet \ {t} : files'[u] = files[u]
            /\ \/ files'[t].lines = files[t].lines
               \/ pc = "open" /\ files'[t].lines = <<>>
               \/ /\ Len(files'[t].lines) = Len(files[t].lines) + 1
                  /\ SubSeq(files'[t].lines, 1, Len(files[t].lines)) = files[t].lines
C18_SingleWriter == [][C18_WriteStep]_vars
\* the coordinator has written a row while a worker is still running a call
\* of the same batch
C18_Witness ==
    \E t \in TypeSet :
        /\ files[t].status = "open"
        /\ RowLines(t) # {}
        /\ InState(t, "RUNNING") # {}

\* the mappings the two extractors of this run return
FormatMapping == (CHOOSE o \in outcomes.format : ~o.raised).metadata
FilenameMapping == (CHOOSE o \in outcomes.filename : ~o.raised).metadata
Value(m, k) == m[CHOOSE i \in 1..Len(m) : m[i][1] = k][2]
\* m is d overridden by e
Overrides(m, d, e) ==
    /\ Keys(m) = Keys(d) \cup Keys(e)
    /\ \A k \in Keys(e) : Value(m, k) = Value(e, k)
    /\ \A k \in Keys(d) \ Keys(e) : Value(m, k) = Value(d, k)

(* C19: the metadata of a successful result is the encoding of a mapping    *)
(* whose keys are those of the format-derived and the filename-derived      *)
(* mapping, in which every key of the filename-derived mapping has the      *)
(* filename-derived value and every other key the format-derived value.     *)
C19_FilenameOverridesFormat ==
    \A t \in TypeSet : \A i \in 1..Len(futures[t]) :
        IsRow(t, i) =>
            \E m \in DictPool :
                /\ futures[t][i].result.metadata = json_dumps(m)
                /\ Overrides(m, FormatMapping, FilenameMapping)
\* a successful result of two mappings that disagree on one key while the
\* format-derived mapping has another key of its own
C19_Witness ==
    /\ \E t \in TypeSet : \E i \in 1..Len(futures[t]) : IsRow(t, i)
    /\ \E k \in Keys(FormatMapping) \cap Keys(FilenameMapping) :
          Value(FormatMapping, k) # Value(FilenameMapping, k)
    /\ Keys(FormatMapping) \ Keys(FilenameMapping) # {}

\* the batch of a format has been run to its end: every task submitted and
\* finished, every result received, the stream closed
BatchComplete(t) ==
    /\ Submitted(t)
    /\ AllFinished(t)
    /\ SeqToSet(received[t]) = 1..Len(futures[t])
    /\ files[t].status = "closed"

(* C20: for every manifest and every worker limit, also when extractions    *)
(* fail, the run can only stop once every batch is complete and every       *)
(* stream closed: when the run has ended (without a manifest or sink        *)
(* error), the batch of every format that has manifest rows is complete.    *)
C20_EndsWithEveryBatchComplete ==
    (Ended /\ ~ManifestOrSinkError) =>
        \A t \in TypeSet : TagCount(t) > 0 => BatchComplete(t)
====
